---- MODULE Spec2Model ----
(***************************************************************************)
(* A model of the rinput text buffer (src/src/rinput/buffer.rs): the byte  *)
(* storage, the mark table, the text-object resolver and the undo/redo     *)
(* history, with the operations of Buffer as actions.                      *)
(*                                                                         *)
(* Offsets are 0-based as in the source; TLA+ sequences are 1-based, so    *)
(* the byte at offset i of a text t is t[i + 1].                           *)
(***************************************************************************)
EXTENDS Integers, Sequences, FiniteSets, TLC

VARIABLES
    text,          \* Buffer.text: the stored bytes (GapBuffer<u8>)
    marks,         \* Buffer.marks: Mark -> Option<MarkPosition>
    log,           \* Buffer.log: [undo |-> stack, redo |-> stack], top first
    dirty,         \* Buffer.dirty
    overflow_checks, \* build profile: TRUE = arithmetic overflow panics (debug)
    panicked,      \* the thread has panicked (an operation aborted)
    C0,            \* history: the content the buffer was constructed with
    last,          \* history: the last operation, its arguments and its result
    cyc,           \* history: progress of an  edit; (undo; redo)*  sequence
    inv,           \* history: progress of an  undo+; edit; redo  sequence
    view           \* the View handles and the Editor's command in progress

vars == <<text, marks, log, dirty, overflow_checks, panicked, C0, last, cyc, inv, view>>

----------------------------------------------------------------------------
(* Bounds of the model. *)

\* longest content the history specification lets the buffer grow to
MaxLen == 2
\* longest content the history specification constructs the buffer with
MaxInit == 1
\* longest content the single-call specification constructs the buffer with
MaxText == 3
\* largest count of a text object, line number or word number
MaxCount == 2
\* deepest undo stack the model lets the history grow to
MaxLog == 2
\* largest number of undo;redo cycles the history variable cyc counts
MaxCycles == 2
\* deepest undo stack the object-edit specification lets the history grow to
MaxEdits == 1

(* Bytes.  b'\n' is the only byte the source names; the others stand for  *)
(* one non-newline whitespace byte and one non-whitespace byte.           *)
NL == 10
SP == 32
CH == 97

Bytes == {NL, SP, CH}

\* the bytes the history specification constructs contents from and inserts
EditBytes == {NL, CH}

\* the mark the history specification sets (the cursor of View::new)
EditMarks == {"Cursor0"}

Marks == {"Cursor0", "DisplayMark0"}

Anchors == {"Start", "End", "Same"}

----------------------------------------------------------------------------
(* Option<T> and the outcome of a call that may panic. *)

None == [tag |-> "None"]
Some(v) == [tag |-> "Some", val |-> v]
Panic == [tag |-> "Panic"]

IsSome(o) == o.tag = "Some"
IsNone(o) == o.tag = "None"
IsPanic(o) == o.tag = "Panic"

Min(a, b) == IF a <= b THEN a ELSE b

SetMax(S) == CHOOSE x \in S : \A y \in S : y <= x

\* the elements of a finite set of integers in ascending order
RECURSIVE Ascending(_)
Ascending(S) ==
    IF S = {} THEN <<>>
    ELSE LET m == CHOOSE x \in S : \A y \in S : x <= y
         IN <<m>> \o Ascending(S \ {m})

\* the elements of a finite set of integers in descending order
RECURSIVE Descending(_)
Descending(S) ==
    IF S = {} THEN <<>>
    ELSE LET m == SetMax(S)
         IN <<m>> \o Descending(S \ {m})

\* Iterator::take(n) on a sequence
Take(s, n) == SubSeq(s, 1, Min(n, Len(s)))

Reverse(s) == [i \in 1..Len(s) |-> s[Len(s) + 1 - i]]

----------------------------------------------------------------------------
(* Storage: gapbuffer::GapBuffer<u8>, as Buffer uses it. *)

\* text[i]
At(t, i) == t[i + 1]

\* GapBuffer::insert(i, ch); the caller checks i <= Len(t) (beyond it the crate panics)
GapInsert(t, i, ch) == SubSeq(t, 1, i) \o <<ch>> \o SubSeq(t, i + 1, Len(t))

\* GapBuffer::remove(i): the text without offset i, unchanged when i is out of range
GapRemove(t, i) ==
    IF i < Len(t) THEN SubSeq(t, 1, i) \o SubSeq(t, i + 2, Len(t)) ELSE t

\* the value GapBuffer::remove(i) returns
GapRemoved(t, i) == IF i < Len(t) THEN Some(At(t, i)) ELSE None

\* Buffer::len
len(t) == Len(t) + 1

----------------------------------------------------------------------------
(* MarkPosition *)

MarkPosition(a, ls, ln) ==
    [absolute |-> a, absolute_line_start |-> ls, line_number |-> ln]

\* MarkPosition::start()
start == MarkPosition(0, 0, 0)

\* start() with only absolute assigned
startAt(a) == MarkPosition(a, 0, 0)

get_line_info(mark, t) ==
    LET val == Min(mark, Len(t))
        line_starts == {idx \in 0..val : idx = 0 \/ At(t, idx - 1) = NL}
    IN  IF line_starts = {} THEN None
        ELSE Some(MarkPosition(mark, SetMax(line_starts), Cardinality(line_starts) - 1))

\* Buffer::set_mark: the new mark table
set_mark(ms, t, mark, idx) ==
    LET mark_pos == get_line_info(idx, t)
    IN  IF IsSome(mark_pos) THEN [ms EXCEPT ![mark] = Some(mark_pos.val)] ELSE ms

----------------------------------------------------------------------------
(* The edit log (crate::log).  A Change is Insert(idx, ch) or              *)
(* Remove(idx, ch); a LogEntry holds the Changes of one transaction in     *)
(* recorded order; Log keeps an undo stack and a redo stack, top first.    *)

Insert(idx, ch) == [kind |-> "Insert", idx |-> idx, ch |-> ch]
Remove(idx, ch) == [kind |-> "Remove", idx |-> idx, ch |-> ch]

LogEntry(changes) == [changes |-> changes]

\* Log::new
LogNew == [undo |-> <<>>, redo |-> <<>>]

\* the inverse of one Change
ChangeReverse(c) ==
    IF c.kind = "Insert" THEN Remove(c.idx, c.ch) ELSE Insert(c.idx, c.ch)

\* the byte-exact inverse of a transaction: inverse Changes, last recorded first
LogEntryReverse(e) ==
    LogEntry(Reverse([i \in 1..Len(e.changes) |-> ChangeReverse(e.changes[i])]))

\* Log::start(..) .. Transaction::log(..)* .. end of the transaction: the
\* transaction is pushed on the undo stack and the redo stack is cleared
LogTransaction(l, changes) ==
    [undo |-> <<LogEntry(changes)>> \o l.undo, redo |-> <<>>]

\* Log::undo: the log afterwards (the original transaction moves to the redo stack)
LogUndo(l) ==
    IF l.undo = <<>> THEN l
    ELSE [undo |-> Tail(l.undo), redo |-> <<Head(l.undo)>> \o l.redo]

\* Log::undo: the transaction handed back for replay, the inverse of the one popped
LogUndoEntry(l) ==
    IF l.undo = <<>> THEN None ELSE Some(LogEntryReverse(Head(l.undo)))

\* Log::redo: the log afterwards (the transaction moves back to the undo stack)
LogRedo(l) ==
    IF l.redo = <<>> THEN l
    ELSE [undo |-> <<Head(l.redo)>> \o l.undo, redo |-> Tail(l.redo)]

\* Log::redo: the transaction handed back for replay, as recorded
LogRedoEntry(l) ==
    IF l.redo = <<>> THEN None ELSE Some(Head(l.redo))

----------------------------------------------------------------------------
(* Replay of a transaction. *)

\* one Change applied to the text: [text, panic]
ApplyChange(r, c) ==
    IF r.panic THEN r
    ELSE IF c.kind = "Insert"
         THEN IF c.idx <= Len(r.text)
              THEN [text |-> GapInsert(r.text, c.idx, c.ch), panic |-> FALSE]
              ELSE [text |-> r.text, panic |-> TRUE]
         ELSE [text |-> GapRemove(r.text, c.idx), panic |-> FALSE]

RECURSIVE CommitFrom(_, _, _)
CommitFrom(changes, i, r) ==
    IF i > Len(changes) THEN r
    ELSE CommitFrom(changes, i + 1, ApplyChange(r, changes[i]))

\* commit with the Remove arm of its match doing nothing
commit_skips_remove(transaction, t) ==
    CommitFrom(SelectSeq(transaction.changes, LAMBDA c : c.kind = "Insert"), 1,
               [text |-> t, panic |-> FALSE])

\* commit(transaction, text): the Changes applied in order
commit(transaction, t) ==
    CommitFrom(transaction.changes, 1, [text |-> t, panic |-> FALSE])

----------------------------------------------------------------------------
(* Text objects (crate::textobject): a Kind (Char, Line(anchor),           *)
(* Word(anchor)) with an Offset (Forward(n, mark), Backward(n, mark),      *)
(* Absolute(n)).                                                           *)

Forward(n, m) == [dir |-> "Forward", n |-> n, mark |-> m]
Backward(n, m) == [dir |-> "Backward", n |-> n, mark |-> m]
Absolute(n) == [dir |-> "Absolute", n |-> n]

KindChar == [kind |-> "Char"]
KindLine(a) == [kind |-> "Line", anchor |-> a]
KindWord(a) == [kind |-> "Word", anchor |-> a]

TextObject(k, o) == [kind |-> k, offset |-> o]

\* Kind::with_anchor
with_anchor(k, a) == IF k.kind = "Char" THEN k ELSE [k EXCEPT !.anchor = a]

Kinds == {KindChar} \cup {KindLine(a) : a \in Anchors} \cup {KindWord(a) : a \in Anchors}

Offsets ==
    {Forward(n, m) : n \in 0..MaxCount, m \in Marks}
    \cup {Backward(n, m) : n \in 0..MaxCount, m \in Marks}
    \cup {Absolute(n) : n \in 0..MaxCount}

TextObjects == {TextObject(k, o) : k \in Kinds, o \in Offsets}

----------------------------------------------------------------------------
(* usize arithmetic.  a - b with a < b panics when the build checks        *)
(* overflow and wraps modulo 2^64 otherwise; a wrapped result is kept as   *)
(* the negative number a - b, which stands for a - b + 2^64.               *)

Sub(a, b) == IF a >= b \/ ~overflow_checks THEN Some(a - b) ELSE Panic

\* the offsets in lo..hi-1 holding a newline
Newlines(t, lo, hi) == {i \in lo..(hi - 1) : At(t, i) = NL}

\* mark_pos.absolute - mark_pos.absolute_line_start
Column(mark_pos) == mark_pos.absolute - mark_pos.absolute_line_start

----------------------------------------------------------------------------
(* Position resolution. *)

get_char_index(t, ms, offset) ==
    IF offset.dir = "Absolute" THEN Some(startAt(offset.n))
    ELSE IF IsNone(ms[offset.mark]) THEN None
    ELSE LET mark_pos == ms[offset.mark].val
             last_ == len(t) - 1
         IN  IF offset.dir = "Forward"
             THEN IF mark_pos.absolute + offset.n < last_
                  THEN get_line_info(mark_pos.absolute + offset.n, t)
                  ELSE get_line_info(last_, t)
             ELSE IF mark_pos.absolute >= offset.n
                  THEN get_line_info(mark_pos.absolute - offset.n, t)
                  ELSE None

get_line_index_absolute(t, anchor, line_number) ==
    LET nlines == Take(Ascending(Newlines(t, 0, Len(t))), line_number + 1)
    IN  CASE anchor = "Start" ->
               IF nlines = <<>> THEN Panic
               ELSE LET line_start == nlines[1] + 1
                        ln == Sub(line_number, 1)
                    IN  IF IsPanic(ln) THEN Panic
                        ELSE Some(MarkPosition(line_start, line_start, ln.val))
          [] anchor = "End" ->
               LET i == Sub(line_number, 1)
               IN  IF IsPanic(i) THEN Panic
                   ELSE IF i.val < 0 \/ i.val >= Len(nlines) THEN Panic
                   ELSE Some(startAt(nlines[i.val + 1]))
          [] OTHER -> None

get_line_index_backward(t, ms, anchor, offset, from_mark) ==
    IF IsNone(ms[from_mark]) THEN None
    ELSE LET mark_pos == ms[from_mark].val
         IN  IF mark_pos.absolute > Len(t) THEN Panic
             ELSE LET nlines == Take(Descending(Newlines(t, 0, mark_pos.absolute)), offset + 1)
                      n == Len(nlines)
                  IN  CASE anchor = "Start" ->
                             IF nlines = <<>> THEN Some(start)
                             ELSE IF offset >= n THEN Panic
                             ELSE LET start_offset ==
                                          Min(Column(mark_pos) + nlines[offset + 1] + 1,
                                              nlines[offset + 1])
                                  IN  Some(MarkPosition(start_offset + 1, nlines[1] + 1, n))
                        [] anchor = "Same" ->
                             IF offset = n
                             THEN IF nlines = <<>> THEN Panic
                                  ELSE Some(startAt(Min(Column(mark_pos), nlines[1])))
                             ELSE IF offset > n \/ offset = 0 THEN Some(start)
                             ELSE LET ln == Sub(mark_pos.line_number, offset)
                                  IN  IF IsPanic(ln) THEN Panic
                                      ELSE Some(MarkPosition(
                                               Min(Column(mark_pos) + nlines[offset + 1] + 1,
                                                   nlines[offset]),
                                               nlines[n] + 1,
                                               ln.val))
                        [] OTHER -> None

get_line_index_forward(t, ms, anchor, offset, from_mark) ==
    IF IsNone(ms[from_mark]) THEN None
    ELSE LET mark_pos == ms[from_mark].val
             last_ == len(t) - 1
             nlines == Take(Ascending(Newlines(t, mark_pos.absolute, Len(t))), offset + 1)
             n == Len(nlines)
         IN  IF nlines = <<>> THEN None
             ELSE CASE anchor = "Same" ->
                         LET new_line_start == nlines[1] + 1
                         IN  IF offset = n
                             THEN Some(MarkPosition(
                                      Min(Column(mark_pos) + nlines[offset] + 1, last_),
                                      nlines[offset] + 1,
                                      mark_pos.line_number + offset))
                             ELSE IF offset > n
                             THEN Some(MarkPosition(last_, new_line_start, (last_ - last_) + 1))
                             ELSE IF offset = 0 THEN Panic
                             ELSE Some(MarkPosition(
                                      Min(Column(mark_pos) + nlines[offset] + 1,
                                          nlines[offset + 1]),
                                      new_line_start,
                                      mark_pos.line_number + offset))
                    [] anchor = "End" ->
                         IF offset >= n THEN Panic
                         ELSE Some(MarkPosition(
                                  Min(Column(mark_pos) + nlines[offset + 1] + 1,
                                      nlines[offset + 1]),
                                  mark_pos.absolute_line_start,
                                  mark_pos.line_number))
                    [] OTHER -> None

get_line_index(t, ms, offset, anchor) ==
    CASE offset.dir = "Forward" -> get_line_index_forward(t, ms, anchor, offset.n, offset.mark)
      [] offset.dir = "Backward" -> get_line_index_backward(t, ms, anchor, offset.n, offset.mark)
      [] OTHER -> get_line_index_absolute(t, anchor, offset.n)

\* char::is_whitespace on a byte read as a char
Whitespace == {9, 10, 11, 12, 13, 32, 133, 160}

\* WordEdgeMatch::Whitespace.is_word_edge
is_word_edge(c1, c2) ==
    \/ c1 = NL /\ c2 = NL
    \/ c1 \in Whitespace /\ c2 \notin Whitespace

\* the offsets in lo..hi-1 at which a word starts
WordEdges(t, lo, hi) == {idx \in lo..(hi - 1) : is_word_edge(At(t, idx - 1), At(t, idx))}

\* Iterator::last()
LastOf(s) == IF s = <<>> THEN None ELSE Some(s[Len(s)])

get_words(mark, n_words, t) ==
    IF Len(t) = 0 THEN None
    ELSE LastOf(Take(Ascending(WordEdges(t, mark + 1, Len(t) - 1)), n_words))

get_words_rev(mark, n_words, t) ==
    IF n_words > 0 /\ mark >= 2 /\ mark - 1 >= Len(t) THEN Panic
    ELSE IF n_words = 0 THEN None
    ELSE LastOf(Take(Descending(WordEdges(t, 1, mark)), n_words))

get_word_index_forward(t, ms, anchor, nth_word, from_mark) ==
    IF IsNone(ms[from_mark]) THEN None
    ELSE LET mark_pos == ms[from_mark].val
             last_ == len(t) - 1
         IN  IF anchor = "Start"
             THEN LET new_index == get_words(mark_pos.absolute, nth_word, t)
                  IN  IF IsSome(new_index) THEN get_line_info(new_index.val, t)
                      ELSE get_line_info(last_, t)
             ELSE Some(startAt(last_))

get_word_index_backward(t, ms, anchor, nth_word, from_mark) ==
    IF IsNone(ms[from_mark]) THEN None
    ELSE LET mark_pos == ms[from_mark].val
             last_ == len(t) - 1
         IN  IF anchor = "Start"
             THEN LET new_index == get_words_rev(mark_pos.absolute, nth_word, t)
                  IN  CASE IsPanic(new_index) -> Panic
                        [] IsSome(new_index) -> get_line_info(new_index.val, t)
                        [] OTHER -> Some(start)
             ELSE Some(startAt(last_))

get_word_index_absolute(t, anchor, word_number) ==
    IF anchor = "Start"
    THEN LET n == Sub(word_number, 1)
         IN  IF IsPanic(n) THEN Panic
             ELSE LET new_index == get_words(0, IF n.val < 0 THEN Len(t) ELSE n.val, t)
                  IN  IF IsSome(new_index) THEN get_line_info(new_index.val, t) ELSE Panic
    ELSE None

get_word_index(t, ms, offset, anchor) ==
    CASE offset.dir = "Forward" -> get_word_index_forward(t, ms, anchor, offset.n, offset.mark)
      [] offset.dir = "Backward" -> get_word_index_backward(t, ms, anchor, offset.n, offset.mark)
      [] OTHER -> get_word_index_absolute(t, anchor, offset.n)

\* Buffer::get_object_index: Some(position), None, or Panic
get_object_index(t, ms, obj) ==
    CASE obj.kind.kind = "Char" -> get_char_index(t, ms, obj.offset)
      [] obj.kind.kind = "Line" -> get_line_index(t, ms, obj.offset, obj.kind.anchor)
      [] OTHER -> get_word_index(t, ms, obj.offset, obj.kind.anchor)

----------------------------------------------------------------------------
(* The operations of Buffer, as functions of a buffer                      *)
(* b = [text, marks, log, dirty].  Each yields [buf, ret, panic, edit]:    *)
(* the buffer afterwards, the value returned, whether the call panicked,   *)
(* and which storage edit it made ("insert", "remove" or "none").          *)

Buffer(t, ms, l, d) == [text |-> t, marks |-> ms, log |-> l, dirty |-> d]

Unit == Some(<<>>)

Returned(b, ret, edit) == [buf |-> b, ret |-> ret, panic |-> FALSE, edit |-> edit]

Panicked(b) == [buf |-> b, ret |-> Panic, panic |-> TRUE, edit |-> "none"]

\* Buffer::set_mark
SetMarkOp(b, mark, idx) ==
    Returned([b EXCEPT !.marks = set_mark(b.marks, b.text, mark, idx)], Unit, "none")

\* Buffer::set_mark_to_object
set_mark_to_object(b, mark, obj) ==
    LET mark_pos == get_object_index(b.text, b.marks, obj)
    IN  CASE IsPanic(mark_pos) -> Panicked(b)
          [] IsSome(mark_pos) -> SetMarkOp(b, mark, mark_pos.val.absolute)
          [] OTHER -> Returned(b, Unit, "none")

\* insert_char logging the mark's line start in place of its offset
insert_char_logs_line_start(b, mark, ch) ==
    IF IsNone(b.marks[mark]) THEN Returned(b, Unit, "none")
    ELSE LET mark_pos == b.marks[mark].val
         IN  IF mark_pos.absolute > Len(b.text) THEN Panicked(b)
             ELSE Returned(
                      [b EXCEPT !.text = GapInsert(b.text, mark_pos.absolute, ch),
                                !.log = LogTransaction(b.log,
                                            <<Insert(mark_pos.absolute_line_start, ch)>>),
                                !.dirty = TRUE],
                      Unit, "insert")

\* insert_char setting dirty before it looks the mark up, as remove_range does
insert_char_dirty_first(b, mark, ch) ==
    IF IsNone(b.marks[mark]) THEN Returned([b EXCEPT !.dirty = TRUE], Unit, "none")
    ELSE LET mark_pos == b.marks[mark].val
         IN  IF mark_pos.absolute > Len(b.text) THEN Panicked(b)
             ELSE Returned(
                      [b EXCEPT !.text = GapInsert(b.text, mark_pos.absolute, ch),
                                !.log = LogTransaction(b.log, <<Insert(mark_pos.absolute, ch)>>),
                                !.dirty = TRUE],
                      Unit, "insert")

\* insert_char starting no transaction
insert_char_unlogged(b, mark, ch) ==
    IF IsNone(b.marks[mark]) THEN Returned(b, Unit, "none")
    ELSE LET mark_pos == b.marks[mark].val
         IN  IF mark_pos.absolute > Len(b.text) THEN Panicked(b)
             ELSE Returned(
                      [b EXCEPT !.text = GapInsert(b.text, mark_pos.absolute, ch),
                                !.dirty = TRUE],
                      Unit, "insert")

\* Buffer::insert_char
insert_char(b, mark, ch) ==
    IF IsNone(b.marks[mark]) THEN Returned(b, Unit, "none")
    ELSE LET mark_pos == b.marks[mark].val
         IN  IF mark_pos.absolute > Len(b.text) THEN Panicked(b)
             ELSE Returned(
                      [b EXCEPT !.text = GapInsert(b.text, mark_pos.absolute, ch),
                                !.log = LogTransaction(b.log, <<Insert(mark_pos.absolute, ch)>>),
                                !.dirty = TRUE],
                      Unit, "insert")

\* the loop of remove_range over idx, idx - 1, .., start_:
\* r = [text, changes, vec] so far
RECURSIVE RemoveDown(_, _, _)
RemoveDown(r, idx, start_) ==
    IF idx < start_ THEN r
    ELSE LET ch == GapRemoved(r.text, idx)
         IN  RemoveDown(
                 IF IsSome(ch)
                 THEN [text |-> GapRemove(r.text, idx),
                       changes |-> Append(r.changes, Remove(idx, ch.val)),
                       vec |-> Append(r.vec, ch.val)]
                 ELSE r,
                 idx - 1, start_)

\* remove_range without the final vec.reverse()
remove_range_unreversed(b, start_, end) ==
    LET r == RemoveDown([text |-> b.text, changes |-> <<>>, vec |-> <<>>], end - 1, start_)
    IN  Returned(
            [b EXCEPT !.text = r.text,
                      !.log = LogTransaction(b.log, r.changes),
                      !.dirty = TRUE],
            Some(r.vec), "remove")

\* remove_range logging every Remove at `start` in place of idx
remove_range_logs_start(b, start_, end) ==
    LET r == RemoveDown([text |-> b.text, changes |-> <<>>, vec |-> <<>>], end - 1, start_)
    IN  Returned(
            [b EXCEPT !.text = r.text,
                      !.log = LogTransaction(b.log,
                                  [i \in 1..Len(r.changes) |->
                                      Remove(start_, r.changes[i].ch)]),
                      !.dirty = TRUE],
            Some(Reverse(r.vec)), "remove")

\* Buffer::remove_range
remove_range(b, start_, end) ==
    LET r == RemoveDown([text |-> b.text, changes |-> <<>>, vec |-> <<>>], end - 1, start_)
    IN  Returned(
            [b EXCEPT !.text = r.text,
                      !.log = LogTransaction(b.log, r.changes),
                      !.dirty = TRUE],
            Some(Reverse(r.vec)), "remove")

\* Buffer::remove_from_mark_to_object
remove_from_mark_to_object(b, mark, object) ==
    IF IsNone(b.marks[mark]) THEN Panicked(b)
    ELSE LET mark_pos == b.marks[mark].val
             obj_pos == get_object_index(b.text, b.marks, object)
         IN  IF ~IsSome(obj_pos) THEN Panicked(b)
             ELSE IF mark_pos.absolute < obj_pos.val.absolute
                  THEN remove_range(b, mark_pos.absolute, obj_pos.val.absolute)
                  ELSE remove_range(b, obj_pos.val.absolute, mark_pos.absolute)

\* Buffer::remove_object
remove_object(b, object) ==
    LET object_start == TextObject(with_anchor(object.kind, "Start"), object.offset)
        object_end == TextObject(with_anchor(object.kind, "End"), object.offset)
        start_ == get_object_index(b.text, b.marks, object_start)
        end == get_object_index(b.text, b.marks, object_end)
    IN  CASE IsPanic(start_) \/ IsPanic(end) -> Panicked(b)
          [] IsSome(start_) /\ IsSome(end) ->
               remove_range(b, start_.val.absolute, end.val.absolute)
          [] OTHER -> Returned(b, None, "none")

\* the outcome of replaying `transaction` after the log moved to `l`
Replayed(b, l, transaction) ==
    IF IsNone(transaction) THEN Returned(b, None, "none")
    ELSE LET r == commit(transaction.val, b.text)
         IN  [buf |-> [b EXCEPT !.text = r.text, !.log = l],
              ret |-> IF r.panic THEN Panic ELSE transaction,
              panic |-> r.panic,
              edit |-> "none"]

\* redo moving the transaction back without replaying it
redo_skips_commit(b) ==
    IF IsNone(LogRedoEntry(b.log)) THEN Returned(b, None, "none")
    ELSE Returned([b EXCEPT !.log = LogRedo(b.log)], LogRedoEntry(b.log), "none")

\* Buffer::redo
redo(b) == Replayed(b, LogRedo(b.log), LogRedoEntry(b.log))

\* undo clearing dirty when it empties the undo stack
undo_clears_dirty(b) ==
    LET r == Replayed(b, LogUndo(b.log), LogUndoEntry(b.log))
    IN  IF r.panic \/ IsNone(r.ret) \/ r.buf.log.undo # <<>> THEN r
        ELSE [r EXCEPT !.buf.dirty = FALSE]

\* Buffer::undo
undo(b) == Replayed(b, LogUndo(b.log), LogUndoEntry(b.log))

\* Buffer::get_object_index as a call: the buffer is only read
GetObjectIndexOp(b, obj) ==
    LET pos == get_object_index(b.text, b.marks, obj)
    IN  IF IsPanic(pos) THEN Panicked(b) ELSE Returned(b, pos, "none")

----------------------------------------------------------------------------
(* The state machine: one Buffer and the calls made on it.                 *)

Buf == Buffer(text, marks, log, dirty)

SeqsUpTo(S, n) == UNION {[1..k -> S] : k \in 0..n}

NoCyc == [phase |-> "none"]

\* cyc after an operation `op` with outcome r
CycNext(op, r) ==
    CASE r.panic -> NoCyc
      [] r.edit # "none" ->
           [phase |-> "edited", kind |-> r.edit, n |-> 0, before |-> text,
            after |-> [text |-> r.buf.text, log |-> r.buf.log]]
      [] op = "undo" /\ cyc.phase = "edited" -> [cyc EXCEPT !.phase = "undone"]
      [] op = "redo" /\ cyc.phase = "undone" ->
           [cyc EXCEPT !.phase = "edited", !.n = Min(cyc.n + 1, MaxCycles)]
      [] OTHER -> NoCyc

\* inv after an operation `op` with outcome r
InvNext(op, r) ==
    CASE r.panic -> "none"
      [] op = "undo" /\ IsSome(r.ret) -> "undone"
      [] r.edit # "none" /\ inv = "undone" -> "mutated"
      [] op = "redo" /\ inv = "mutated" -> "redone"
      [] OTHER -> "none"

\* the call `op` with outcome r takes place; arg records the arguments of the
\* call where a property reads them
Step(op, arg, r) ==
    /\ ~panicked
    /\ text' = r.buf.text
    /\ marks' = r.buf.marks
    /\ log' = r.buf.log
    /\ dirty' = r.buf.dirty
    /\ panicked' = r.panic
    /\ last' = [op |-> op, arg |-> arg, ret |-> r.ret, edit |-> r.edit]
    /\ cyc' = CycNext(op, r)
    /\ inv' = InvNext(op, r)
    /\ UNCHANGED <<overflow_checks, C0, view>>

NoCall == [op |-> "new", arg |-> <<>>, ret |-> Unit, edit |-> "none"]

\* no View is constructed on the buffer
NoView == [op |-> "none"]

----------------------------------------------------------------------------
(* The history specification: a buffer constructed with some content, then *)
(* set_mark, insert_char, remove_range, undo and redo in any order.  None  *)
(* of these subtracts, so one build profile stands for both.               *)

\* offsets a caller may pass: within, at the end of, and past the end of the content
Indexes == 0..MaxLen

\* an edit may be logged: the model's bound on the history is not reached
MayLog == Len(log.undo) < MaxLog

\* Buffer::new() or Buffer::from(reader): any content, no marks, an empty log
Init ==
    /\ text \in SeqsUpTo(EditBytes, MaxInit)
    /\ marks = [m \in Marks |-> None]
    /\ log = LogNew
    /\ dirty = FALSE
    /\ overflow_checks = TRUE
    /\ panicked = FALSE
    /\ C0 = text
    /\ last = NoCall
    /\ cyc = NoCyc
    /\ inv = "none"
    /\ view = NoView

SetMark ==
    \E m \in EditMarks, idx \in Indexes :
        Step("set_mark", <<>>, SetMarkOp(Buf, m, idx))

InsertChar ==
    \E m \in Marks, ch \in EditBytes :
        /\ MayLog
        /\ Len(text) < MaxLen
        /\ Step("insert_char", <<>>, insert_char(Buf, m, ch))

\* a range with start > end is empty, as one with start = end is
RemoveRange ==
    \E a \in Indexes, b \in Indexes :
        /\ a <= b
        /\ MayLog
        /\ Step("remove_range", [start |-> a, end |-> b], remove_range(Buf, a, b))

Undo == Step("undo", <<>>, undo(Buf))

Redo == Step("redo", <<>>, redo(Buf))

Next ==
    \/ SetMark
    \/ InsertChar
    \/ RemoveRange
    \/ Undo
    \/ Redo

Spec == Init /\ [][Next]_vars

----------------------------------------------------------------------------
(* The single-call specification: a buffer constructed with any content,   *)
(* the cursor mark set to any offset, under either build profile, and then *)
(* one call of an operation with any argument.                             *)

CallInit ==
    /\ text \in SeqsUpTo(Bytes, MaxText)
    /\ \E idx \in 0..MaxText :
          marks = set_mark([m \in Marks |-> None], text, "Cursor0", idx)
    /\ log = LogNew
    /\ dirty = FALSE
    /\ overflow_checks \in BOOLEAN
    /\ panicked = FALSE
    /\ C0 = text
    /\ last = NoCall
    /\ cyc = NoCyc
    /\ inv = "none"
    /\ view = NoView

NotCalled == last.op = "new"

CallSetMark ==
    /\ NotCalled
    /\ \E m \in Marks, idx \in 0..MaxText :
          Step("set_mark", [mark |-> m, idx |-> idx], SetMarkOp(Buf, m, idx))

CallGetObjectIndex ==
    /\ NotCalled
    /\ \E obj \in TextObjects :
          Step("get_object_index", [obj |-> obj], GetObjectIndexOp(Buf, obj))

CallSetMarkToObject ==
    /\ NotCalled
    /\ \E m \in Marks, obj \in TextObjects :
          Step("set_mark_to_object", [mark |-> m, obj |-> obj],
                set_mark_to_object(Buf, m, obj))

CallRemoveObject ==
    /\ NotCalled
    /\ \E obj \in TextObjects :
          Step("remove_object", [obj |-> obj], remove_object(Buf, obj))

CallRemoveFromMarkToObject ==
    /\ NotCalled
    /\ \E m \in Marks, obj \in TextObjects :
          Step("remove_from_mark_to_object", [mark |-> m, obj |-> obj],
                remove_from_mark_to_object(Buf, m, obj))

CallInsertChar ==
    /\ NotCalled
    /\ \E m \in Marks, ch \in Bytes :
          Step("insert_char", [mark |-> m, ch |-> ch], insert_char(Buf, m, ch))

CallNext ==
    \/ CallSetMark
    \/ CallInsertChar
    \/ CallGetObjectIndex
    \/ CallSetMarkToObject
    \/ CallRemoveObject
    \/ CallRemoveFromMarkToObject

SpecCall == CallInit /\ [][CallNext]_vars

----------------------------------------------------------------------------
(* The object-edit specification: the history specification's calls and    *)
(* remove_object, under either build profile.  It keeps no record of the   *)
(* calls made: last, cyc and inv stay as construction leaves them.         *)

\* the objects remove_object is called with: it replaces the anchor of the
\* kind by Start and by End, so one anchor per kind stands for all
EditObjects ==
    {TextObject(k, o) : k \in {KindChar, KindLine("Start"), KindWord("Start")},
                        o \in {Forward(n, "Cursor0") : n \in 0..MaxCount}
                           \cup {Backward(n, "Cursor0") : n \in 0..MaxCount}
                           \cup {Absolute(n) : n \in 0..MaxCount}}

\* an edit may be logged: the bound of this specification on the history is not reached
EditMayLog == Len(log.undo) < MaxEdits

\* the call with outcome r takes place
EditStep(r) ==
    /\ ~panicked
    /\ text' = r.buf.text
    /\ marks' = r.buf.marks
    /\ log' = r.buf.log
    /\ dirty' = r.buf.dirty
    /\ panicked' = r.panic
    /\ UNCHANGED <<overflow_checks, C0, last, cyc, inv, view>>

EditInit ==
    /\ text \in SeqsUpTo(Bytes, MaxInit)
    /\ marks = [m \in Marks |-> None]
    /\ log = LogNew
    /\ dirty = FALSE
    /\ overflow_checks \in BOOLEAN
    /\ panicked = FALSE
    /\ C0 = text
    /\ last = NoCall
    /\ cyc = NoCyc
    /\ inv = "none"
    /\ view = NoView

EditSetMark ==
    \E idx \in Indexes : EditStep(SetMarkOp(Buf, "Cursor0", idx))

EditInsertChar ==
    \E m \in Marks, ch \in Bytes :
        /\ EditMayLog
        /\ Len(text) < MaxLen
        /\ EditStep(insert_char(Buf, m, ch))

EditRemoveRange ==
    \E a \in Indexes, b \in Indexes :
        /\ a <= b
        /\ EditMayLog
        /\ EditStep(remove_range(Buf, a, b))

EditRemoveObject ==
    \E obj \in EditObjects :
        /\ EditMayLog
        /\ EditStep(remove_object(Buf, obj))

EditUndo == EditStep(undo(Buf))

EditRedo == EditStep(redo(Buf))

EditNext ==
    \/ EditSetMark
    \/ EditInsertChar
    \/ EditRemoveRange
    \/ EditRemoveObject
    \/ EditUndo
    \/ EditRedo

SpecEdit == EditInit /\ [][EditNext]_vars

----------------------------------------------------------------------------
(* View: a handle on the lock-guarded buffer, and the Editor's commands.   *)
(* The operators below are the bodies run with the buffer's lock held.     *)

TAB == 9
\* a control char other than tab and newline
CTL == 1

\* the chars a View inserts
ViewChars == {TAB, NL, CTL, CH}

\* View.threshold
threshold == 5

\* the height a View is constructed with
ViewHeight == 24

\* UnicodeWidthChar::width of a char below 256
UnicodeWidth(c) ==
    IF c = 0 THEN Some(0)
    ELSE IF c < 32 \/ (c >= 127 /\ c < 160) THEN None
    ELSE Some(1)

\* utils::char_width; width and width_cjk agree on the chars of ViewChars
char_width(c, is_cjk, tab_width, position) ==
    IF c = TAB THEN Some(tab_width - (position % tab_width))
    ELSE IF c = NL THEN Some(1)
    ELSE UnicodeWidth(c)

\* View::new: the marks it sets
View_new(b) ==
    SetMarkOp(SetMarkOp(b, "Cursor0", 0).buf, "DisplayMark0", 0).buf

\* Buffer::get_mark_display_coords
get_mark_display_coords(b, mark) ==
    IF IsNone(b.marks[mark]) THEN None
    ELSE LET mark_pos == b.marks[mark].val
             x == Sub(mark_pos.absolute, mark_pos.absolute_line_start)
         IN  IF IsPanic(x) THEN Panic
             ELSE Some([x |-> x.val, y |-> mark_pos.line_number])

\* View::maybe_move_screen: the vertical shift of top_line (left_col is a
\* field of the View and is not part of the buffer)
maybe_move_screen(b) ==
    LET cursor == get_mark_display_coords(b, "Cursor0")
        top == get_mark_display_coords(b, "DisplayMark0")
    IN  IF IsPanic(cursor) \/ IsPanic(top) THEN Panicked(b)
        ELSE IF IsNone(cursor) \/ IsNone(top) THEN Returned(b, Unit, "none")
        ELSE LET height == (ViewHeight - 1) - threshold
                 top_line == top.val.y
                 y_offset == cursor.val.y - top_line
             IN  IF y_offset < threshold /\ top_line > 0
                 THEN set_mark_to_object(b, "DisplayMark0",
                          TextObject(KindLine("Same"),
                                     Backward(threshold - y_offset, "DisplayMark0")))
                 ELSE IF y_offset >= height
                 THEN set_mark_to_object(b, "DisplayMark0",
                          TextObject(KindLine("Same"),
                                     Forward(y_offset - height + 1, "DisplayMark0")))
                 ELSE Returned(b, Unit, "none")

\* the first statement of View::insert_char: the byte goes in at the cursor
ViewInsertByte(b, ch) == insert_char(b, "Cursor0", ch)

\* the set_mark_to_object of View::move_mark for the cursor advance of ch;
\* a char without a width moves nothing
ViewAdvanceCursor(b, ch) ==
    LET ch_width == char_width(ch, FALSE, 4, 1)
    IN  IF IsSome(ch_width)
        THEN set_mark_to_object(b, "Cursor0",
                 TextObject(KindChar, Forward(ch_width.val, "Cursor0")))
        ELSE Returned(b, Unit, "none")

\* View::insert_char run without interruption
View_insert_char(b, ch) ==
    LET inserted == ViewInsertByte(b, ch)
        moved == ViewAdvanceCursor(inserted.buf, ch)
    IN  CASE inserted.panic -> inserted
          [] moved.panic -> moved
          [] IsNone(char_width(ch, FALSE, 4, 1)) -> moved
          [] OTHER -> maybe_move_screen(moved.buf)

\* Command { number, action: Operation(Insert(c)) }
InsertCommand(c, number) == [action |-> "Insert", c |-> c, number |-> number]

\* the loop of handle_operation: k more View::insert_char calls
RECURSIVE InsertTimes(_, _, _)
InsertTimes(r, c, k) ==
    IF k = 0 \/ r.panic THEN r
    ELSE InsertTimes(View_insert_char(r.buf, c), c, k - 1)

\* Editor::handle_operation for Operation::Insert
handle_operation(b, command) ==
    InsertTimes(Returned(b, Unit, "none"), command.c, command.number)

\* the loop of handle_command: k more handle_operation calls
RECURSIVE OperationTimes(_, _, _)
OperationTimes(r, command, k) ==
    IF k = 0 \/ r.panic THEN r
    ELSE OperationTimes(handle_operation(r.buf, command), command, k - 1)

\* Editor::handle_command
handle_command(b, command) ==
    LET repeat == IF command.number > 0 THEN command.number ELSE 1
    IN  OperationTimes(Returned(b, Unit, "none"), command, repeat)

----------------------------------------------------------------------------
(* The editor specification: a buffer with one View, on which the Editor   *)
(* handles Insert commands and View::insert_char is called.                *)

\* the call `op` with char ch and count number, with outcome r, takes place
EditorStep(op, ch, number, r) ==
    /\ ~panicked
    /\ text' = r.buf.text
    /\ marks' = r.buf.marks
    /\ log' = r.buf.log
    /\ dirty' = r.buf.dirty
    /\ panicked' = r.panic
    /\ view' = [op |-> op, ch |-> ch, number |-> number,
                p |-> marks["Cursor0"].val.absolute, before |-> text]
    /\ UNCHANGED <<overflow_checks, C0, last, cyc, inv>>

EditorInit ==
    /\ text \in SeqsUpTo(EditBytes, MaxInit)
    /\ marks = View_new(Buffer(text, [m \in Marks |-> None], LogNew, FALSE)).marks
    /\ log = LogNew
    /\ dirty = FALSE
    /\ overflow_checks \in BOOLEAN
    /\ panicked = FALSE
    /\ C0 = text
    /\ last = NoCall
    /\ cyc = NoCyc
    /\ inv = "none"
    /\ view = [op |-> "new"]

EditorInsertChar ==
    \E ch \in ViewChars :
        /\ Len(text) < MaxLen
        /\ EditorStep("insert_char", ch, 1, View_insert_char(Buf, ch))

EditorHandleCommand ==
    \E c \in ViewChars, number \in 0..MaxCount :
        /\ Len(text) <= MaxInit
        /\ EditorStep("handle_command", c, number,
                      handle_command(Buf, InsertCommand(c, number)))

EditorNext ==
    \/ EditorInsertChar
    \/ EditorHandleCommand

SpecEditor == EditorInit /\ [][EditorNext]_vars

----------------------------------------------------------------------------
(* The view specification: two View handles on one lock-guarded buffer.    *)
(* Every View names its cursor Mark::Cursor(0) and its top line            *)
(* Mark::DisplayMark(0), so the handles share both marks.  Each            *)
(* `self.buffer.lock().unwrap()` of View::insert_char is a ViewLock step   *)
(* followed by the step that runs the statement and drops the guard.       *)

ViewHandles == {"v1", "v2"}

\* the handles whose call has not stored its byte yet
Inserting == {h \in ViewHandles : view.pc[h] = "insert"}

\* handle h, holding the lock, runs a statement with outcome r, drops the
\* guard and goes on to `pc`
ViewStep(h, r, pc) ==
    /\ ~panicked
    /\ view.lock = h
    /\ text' = r.buf.text
    /\ marks' = r.buf.marks
    /\ log' = r.buf.log
    /\ dirty' = r.buf.dirty
    /\ panicked' = r.panic
    /\ view' = [view EXCEPT !.lock = "free", !.pc[h] = pc]
    /\ UNCHANGED <<overflow_checks, C0, last, cyc, inv>>

ViewInit ==
    /\ text \in SeqsUpTo(EditBytes, MaxInit)
    /\ marks = View_new(View_new(Buffer(text, [m \in Marks |-> None], LogNew, FALSE))).marks
    /\ log = LogNew
    /\ dirty = FALSE
    /\ overflow_checks \in BOOLEAN
    /\ panicked = FALSE
    /\ C0 = text
    /\ last = NoCall
    /\ cyc = NoCyc
    /\ inv = "none"
    /\ view = [lock |-> "free",
               pc |-> [h \in ViewHandles |-> "idle"],
               ch |-> [h \in ViewHandles |-> CH]]

\* View::insert_char(ch) is called on handle h
ViewCallInsertChar(h) ==
    \E ch \in ViewChars :
        /\ ~panicked
        /\ view.pc[h] = "idle"
        /\ Len(text) + Cardinality(Inserting) < MaxText
        /\ view' = [view EXCEPT !.pc[h] = "insert", !.ch[h] = ch]
        /\ UNCHANGED <<text, marks, log, dirty, overflow_checks, panicked,
                       C0, last, cyc, inv>>

\* self.buffer.lock().unwrap() of the statement handle h is at
ViewLock(h) ==
    /\ ~panicked
    /\ view.pc[h] # "idle"
    /\ view.lock = "free"
    /\ view' = [view EXCEPT !.lock = h]
    /\ UNCHANGED <<text, marks, log, dirty, overflow_checks, panicked,
                   C0, last, cyc, inv>>

\* the insert_char statement of View::insert_char
ViewInsert(h) ==
    /\ view.pc[h] = "insert"
    /\ ViewStep(h, ViewInsertByte(Buf, view.ch[h]),
                IF IsSome(char_width(view.ch[h], FALSE, 4, 1))
                THEN "move_mark" ELSE "idle")

\* the set_mark_to_object statement of View::move_mark
ViewMoveMark(h) ==
    /\ view.pc[h] = "move_mark"
    /\ ViewStep(h, ViewAdvanceCursor(Buf, view.ch[h]), "maybe_move_screen")

\* View::maybe_move_screen
ViewMaybeMoveScreen(h) ==
    /\ view.pc[h] = "maybe_move_screen"
    /\ ViewStep(h, maybe_move_screen(Buf), "idle")

ViewNext ==
    \E h \in ViewHandles :
        \/ ViewCallInsertChar(h)
        \/ ViewLock(h)
        \/ ViewInsert(h)
        \/ ViewMoveMark(h)
        \/ ViewMaybeMoveScreen(h)

SpecView == ViewInit /\ [][ViewNext]_vars

----------------------------------------------------------------------------
(* Properties. *)

\* the Changes of `changes` are Removes at strictly descending offsets
DescendingRemoves(changes) ==
    /\ \A i \in 1..Len(changes) : changes[i].kind = "Remove"
    /\ \A i \in 1..Len(changes), j \in 1..Len(changes) :
          i < j => changes[i].idx > changes[j].idx

\* C1: insert_char at a mark whose offset p satisfies 0 <= p < len(), followed
\* by undo, leaves the stored bytes exactly as they were before the insertion.
C1_InsertUndoRestores ==
    (cyc.phase = "undone" /\ cyc.kind = "insert") => text = cyc.before

\* an insertion into a non-empty content has just been undone
C1_Witness ==
    /\ cyc.phase = "undone" /\ cyc.kind = "insert" /\ cyc.n = 0
    /\ last.op = "undo"
    /\ Len(cyc.before) >= 1
    /\ cyc.after.text # cyc.before

\* C2: remove_range(a, b) followed by undo re-inserts every removed byte at its
\* original offset, so the stored bytes are those before the removal; the
\* Remove changes of the removal are recorded in descending offset order.
C2_RemoveUndoRestores ==
    /\ (cyc.phase = "undone" /\ cyc.kind = "remove") => text = cyc.before
    /\ (cyc.phase = "edited" /\ cyc.kind = "remove") =>
          DescendingRemoves(Head(log.undo).changes)

\* the removal of two different bytes has just been undone
C2_Witness ==
    /\ cyc.phase = "undone" /\ cyc.kind = "remove" /\ cyc.n = 0
    /\ last.op = "undo"
    /\ Len(cyc.before) - Len(cyc.after.text) >= 2
    /\ Len(Head(log.redo).changes) >= 2
    /\ Head(log.redo).changes[1].ch # Head(log.redo).changes[2].ch

\* C3: after an edit, undo followed by redo yields the content of after the
\* edit, and any number k >= 1 of undo; redo cycles ends in that content with
\* the undo and redo stacks of after the edit.
C3_UndoRedoCyclesStable ==
    (cyc.phase = "edited" /\ cyc.n >= 1) =>
        /\ text = cyc.after.text
        /\ log = cyc.after.log

\* MaxCycles undo; redo cycles have followed an edit that changed the content
C3_Witness ==
    /\ cyc.phase = "edited" /\ cyc.n = MaxCycles
    /\ last.op = "redo"
    /\ cyc.after.text # cyc.before

\* C4: an edit (insert_char at a set mark, or remove_range) made after one or
\* more undos leaves the redo stack empty, and the redo that follows returns
\* None and leaves the content and both stacks as they are.
C4_EditInvalidatesRedo ==
    /\ inv = "mutated" =>
          /\ log.redo = <<>>
          /\ redo(Buf) = Returned(Buf, None, "none")
    /\ inv = "redone" =>
          /\ IsNone(last.ret)
          /\ log.redo = <<>>

\* undo, then an edit, then a redo have taken place
C4_Witness ==
    /\ inv = "redone"
    /\ last.op = "redo"
    /\ log.undo # <<>>

RECURSIVE ReplayFrom(_, _, _)
\* the text t with the transactions entries[i], entries[i - 1], .., entries[1] replayed
ReplayFrom(entries, i, t) ==
    IF i = 0 THEN t
    ELSE ReplayFrom(entries, i - 1, commit(entries[i], t).text)

RECURSIVE UndoAll(_)
\* the buffer after undo is called until it returns None
UndoAll(b) ==
    LET r == undo(b)
    IN  IF IsSome(r.ret) THEN UndoAll(r.buf) ELSE r.buf

\* C5: after any interleaving of insert_char, remove_range, undo and redo on a
\* buffer constructed with content C0, the content is C0 with the transactions
\* of the undo stack replayed oldest first, and undo called until it returns
\* None restores C0.
C5_ContentIsReplayedUndoStack ==
    /\ text = ReplayFrom(log.undo, Len(log.undo), C0)
    /\ UndoAll(Buf).text = C0

\* two transactions are on the undo stack after a redo, and the content differs from C0
C5_Witness ==
    /\ Len(log.undo) >= 2
    /\ last.op = "redo"
    /\ IsSome(last.ret)
    /\ text # C0

\* C6: every MarkPosition that resolving an offset produces has
\* absolute_line_start <= absolute < len() and a line_number equal to the
\* number of newlines before absolute_line_start, whatever offset is asked for.
C6_LineInfoConsistent ==
    (last.op = "set_mark" /\ IsSome(marks[last.arg.mark])) =>
        LET p == marks[last.arg.mark].val
        IN  /\ p.absolute_line_start <= p.absolute
            /\ p.absolute < len(text)
            /\ p.line_number = Cardinality(Newlines(text, 0, p.absolute_line_start))

\* every entry of the mark table is below len()
MarksInRange ==
    \A m \in Marks : IsSome(marks[m]) => marks[m].val.absolute < len(text)

\* C7: every entry of the mark table has absolute < len() in every reachable
\* state; in particular a removal or an undo that shortens the content, which
\* leaves the mark table as it is, keeps every entry below len().
C7_MarksStayInRange ==
    [][(MarksInRange /\ marks' = marks) => MarksInRange']_vars

\* the anchors get_line_index and get_word_index handle for a direction
HandledAnchor(obj) ==
    CASE obj.kind.kind = "Word" -> obj.kind.anchor = "Start"
      [] obj.kind.kind = "Line" /\ obj.offset.dir = "Forward" ->
           obj.kind.anchor \in {"Same", "End"}
      [] obj.kind.kind = "Line" /\ obj.offset.dir = "Backward" ->
           obj.kind.anchor \in {"Start", "Same"}
      [] OTHER -> FALSE

\* the number of line or word boundaries of t from the offset a in the direction of obj
BoundariesAvailable(t, a, obj) ==
    CASE obj.kind.kind = "Line" /\ obj.offset.dir = "Forward" ->
           Cardinality(Newlines(t, Min(a, Len(t)), Len(t)))
      [] obj.kind.kind = "Line" /\ obj.offset.dir = "Backward" ->
           Cardinality(Newlines(t, 0, Min(a, Len(t))))
      [] obj.kind.kind = "Word" /\ obj.offset.dir = "Forward" ->
           Cardinality(WordEdges(t, a + 1, Len(t)))
      [] OTHER ->
           Cardinality(WordEdges(t, 1, Min(a, Len(t))))

\* C8: a Forward or Backward request of kind Line or Word with a handled
\* anchor, from a set mark, whose count exceeds the boundaries available in
\* that direction, resolves to absolute 0 (Backward) or len() - 1 (Forward).
C8_OverrunClampsToBoundary ==
    (/\ last.op = "get_object_index"
     /\ last.arg.obj.kind.kind \in {"Line", "Word"}
     /\ last.arg.obj.offset.dir \in {"Forward", "Backward"}
     /\ HandledAnchor(last.arg.obj)
     /\ IsSome(marks[last.arg.obj.offset.mark])
     /\ last.arg.obj.offset.n >
            BoundariesAvailable(text, marks[last.arg.obj.offset.mark].val.absolute,
                                last.arg.obj))
    => /\ IsSome(last.ret)
       /\ last.ret.val.absolute =
              IF last.arg.obj.offset.dir = "Backward" THEN 0 ELSE len(text) - 1

\* C9: get_object_index, set_mark_to_object, remove_object and
\* remove_from_mark_to_object, for a text object other than Word/Absolute,
\* do not panic, and return None only with the buffer unchanged.
C9_NoPanicOutsideWordAbsolute ==
    (/\ last.op \in {"get_object_index", "set_mark_to_object", "remove_object",
                     "remove_from_mark_to_object"}
     /\ ~(last.arg.obj.kind.kind = "Word" /\ last.arg.obj.offset.dir = "Absolute"))
    => /\ ~panicked
       /\ IsNone(last.ret) => (text = C0 /\ log = LogNew /\ ~dirty)

\* C10: remove_range(start, end) with start <= end <= the number of stored
\* bytes returns the bytes at start..end-1 in their order in the content, and
\* leaves the content without exactly that span.
C10_RemoveRangeReturnsSpan ==
    (/\ last.op = "remove_range"
     /\ last.arg.start <= last.arg.end
     /\ last.arg.end <= Len(cyc.before))
    => /\ last.ret = Some(SubSeq(cyc.before, last.arg.start + 1, last.arg.end))
       /\ text = SubSeq(cyc.before, 1, last.arg.start)
                     \o SubSeq(cyc.before, last.arg.end + 1, Len(cyc.before))

\* remove_range has removed two different bytes
C10_Witness ==
    /\ last.op = "remove_range"
    /\ last.arg.end <= Len(cyc.before)
    /\ last.arg.end - last.arg.start >= 2
    /\ last.ret.val[1] # last.ret.val[2]

\* C11: insert_char(mark, b) with the mark in the mark table at absolute p
\* inserts b at offset p, sets dirty, and pushes one transaction holding the
\* single change Insert(p, b), for every mark the table can contain.
C11_InsertCharAtMark ==
    (last.op = "insert_char" /\ IsSome(marks[last.arg.mark])) =>
        LET p == marks[last.arg.mark].val.absolute
        IN  /\ ~panicked
            /\ text = SubSeq(C0, 1, p) \o <<last.arg.ch>> \o SubSeq(C0, p + 1, Len(C0))
            /\ Len(text) = Len(C0) + 1
            /\ dirty
            /\ log = [undo |-> <<LogEntry(<<Insert(p, last.arg.ch)>>)>>, redo |-> <<>>]

\* C12: insert_char(mark, b) with a mark that has no entry in the mark table
\* leaves the content, the mark table, the undo stack, the redo stack and
\* dirty as they are, and does not panic.
C12_InsertCharUnsetMarkNoOp ==
    \A m \in Marks, ch \in Bytes :
        IsNone(marks[m]) => insert_char(Buf, m, ch) = Returned(Buf, Unit, "none")

\* insert_char with an unset mark has been called on a buffer with a history
C12_Witness ==
    /\ last.op = "insert_char"
    /\ last.edit = "none"
    /\ ~panicked
    /\ \E m \in Marks : IsNone(marks[m])
    /\ log.undo # <<>>
    /\ log.redo # <<>>
    /\ text # C0

\* the bytes of t at the offsets of lo..hi-1 that t has, left out
WithoutSpan(t, lo, hi) ==
    LET kept == SelectSeq([i \in 1..Len(t) |-> [at |-> i - 1, ch |-> t[i]]],
                          LAMBDA e : ~(lo <= e.at /\ e.at < hi))
    IN  [i \in 1..Len(kept) |-> kept[i].ch]

\* C13: remove_object returns None and removes nothing when the Start-anchored
\* or the End-anchored variant of the object fails to resolve; when both
\* resolve it removes exactly the span between them.  Word/Absolute, whose
\* resolution is documented to panic, is left aside.
C13_RemoveObjectBothEndpoints ==
    (/\ last.op = "remove_object"
     /\ ~(last.arg.obj.kind.kind = "Word" /\ last.arg.obj.offset.dir = "Absolute")) =>
        LET object == last.arg.obj
            start_ == get_object_index(C0, marks,
                          TextObject(with_anchor(object.kind, "Start"), object.offset))
            end == get_object_index(C0, marks,
                          TextObject(with_anchor(object.kind, "End"), object.offset))
        IN  /\ (IsNone(start_) \/ IsNone(end)) =>
                  /\ ~panicked
                  /\ IsNone(last.ret)
                  /\ text = C0 /\ log = LogNew /\ ~dirty
            /\ (IsSome(start_) /\ IsSome(end)) =>
                  /\ ~panicked
                  /\ IsSome(last.ret)
                  /\ text = WithoutSpan(C0, start_.val.absolute, end.val.absolute)

\* get_object_index has been called with a Line object of the given direction
\* and anchor, from a set mark whose offset is below len()
LineCall(dir, anchor) ==
    /\ last.op = "get_object_index"
    /\ last.arg.obj.kind = KindLine(anchor)
    /\ last.arg.obj.offset.dir = dir
    /\ dir # "Absolute" =>
          /\ IsSome(marks[last.arg.obj.offset.mark])
          /\ marks[last.arg.obj.offset.mark].val.absolute < len(text)

\* the mark the last call started from
FromMark == marks[last.arg.obj.offset.mark].val

\* the count of the last call's object
Count == last.arg.obj.offset.n

\* the newline offsets at or after a, nearest first
NewlinesFrom(t, a) == Ascending(Newlines(t, a, Len(t)))

\* the newline offsets before a, nearest first
NewlinesBefore(t, a) == Descending(Newlines(t, 0, a))

\* the last call returned a position with this absolute
ResolvedTo(a) == ~panicked /\ IsSome(last.ret) /\ last.ret.val.absolute = a

\* C14: Line/Forward(n, mark) with anchor End resolves to the newline ending
\* the line n lines after the mark's line; with fewer than n+1 newlines at or
\* after the mark it refers to the last line, and with none to len()-1; it is
\* never absent and never panics.
C14_LineForwardEnd ==
    LineCall("Forward", "End") =>
        LET nl == NewlinesFrom(text, FromMark.absolute)
        IN  CASE nl = <<>> -> ResolvedTo(len(text) - 1)
              [] Count + 1 <= Len(nl) -> ResolvedTo(nl[Count + 1])
              [] OTHER -> ResolvedTo(nl[Len(nl)]) \/ ResolvedTo(len(text) - 1)

\* C15: Line/Forward(n, mark) with anchor Same, for every n >= 0 for which the
\* line n lines after the mark's line exists, resolves to that line's start
\* plus the mark's column, clamped to the line's end (its newline, or len()-1
\* on an unterminated last line); for n = 0 this is the mark's own offset.
C15_LineForwardSame ==
    LineCall("Forward", "Same") =>
        LET nl == NewlinesFrom(text, FromMark.absolute)
            line_start == IF Count = 0 THEN FromMark.absolute_line_start
                          ELSE nl[Count] + 1
            line_end == IF Count + 1 <= Len(nl) THEN nl[Count + 1] ELSE len(text) - 1
        IN  Count <= Len(nl) => ResolvedTo(Min(line_start + Column(FromMark), line_end))

\* C16: Line/Backward(n, mark) with anchor Start resolves to the first byte of
\* the line n lines before the mark's line when it exists (0 for the buffer's
\* first line), and to 0 when n exceeds the number of preceding lines.
C16_LineBackwardStart ==
    LineCall("Backward", "Start") =>
        LET nb == NewlinesBefore(text, FromMark.absolute)
        IN  ResolvedTo(IF Count < Len(nb) THEN nb[Count + 1] + 1 ELSE 0)

\* C17: Line/Backward(n, mark) with anchor Same and 1 <= n <= the number of
\* lines before the mark's line resolves to the start of the line n lines
\* before plus the mark's column, clamped to that line's newline.
C17_LineBackwardSame ==
    LineCall("Backward", "Same") =>
        LET nb == NewlinesBefore(text, FromMark.absolute)
            line_start == IF Count < Len(nb) THEN nb[Count + 1] + 1 ELSE 0
        IN  (1 <= Count /\ Count <= Len(nb)) =>
                ResolvedTo(Min(line_start + Column(FromMark), nb[Count]))

\* C18: Line/Backward(n, mark) with anchor Same returns the zeroed position
\* when n = 0 or n exceeds the number of lines before the mark's line, for
\* every mark position, and does not panic.
C18_LineBackwardSameZeroed ==
    LineCall("Backward", "Same") =>
        LET nb == NewlinesBefore(text, FromMark.absolute)
        IN  (Count = 0 \/ Count > Len(nb)) =>
                (~panicked /\ last.ret = Some(start))

\* C19: Line/Absolute(k) takes the (k+1)-th newline offset b from offset 0;
\* the result's absolute is b + 1 with anchor Start and b with anchor End,
\* for every k for which that newline exists.
C19_LineAbsolute ==
    LET all == NewlinesFrom(text, 0)
    IN  /\ (LineCall("Absolute", "Start") /\ Count + 1 <= Len(all)) =>
              ResolvedTo(all[Count + 1] + 1)
        /\ (LineCall("Absolute", "End") /\ Count + 1 <= Len(all)) =>
              ResolvedTo(all[Count + 1])

\* C20: Word/Forward(n, mark) with anchor Start and n >= 1 resolves to the
\* n-th word boundary after the mark's offset (offset i is a boundary iff
\* byte i-1 is whitespace and byte i is not, or both are newlines), and to
\* len()-1 when fewer than n boundaries remain after the mark.
C20_WordForwardStart ==
    (/\ last.op = "get_object_index"
     /\ last.arg.obj.kind = KindWord("Start")
     /\ last.arg.obj.offset.dir = "Forward"
     /\ Count >= 1
     /\ IsSome(marks[last.arg.obj.offset.mark])
     /\ FromMark.absolute < len(text))
    => LET edges == Ascending(WordEdges(text, FromMark.absolute + 1, Len(text)))
       IN  ResolvedTo(IF Count <= Len(edges) THEN edges[Count] ELSE len(text) - 1)

\* C21: Word/Backward(n, mark) with anchor Start and n >= 1 resolves to the
\* n-th word boundary strictly before the mark's offset, counting backward,
\* and to absolute 0 when that boundary is not found; the result is a fully
\* resolved position with absolute <= the mark's offset.
C21_WordBackwardStart ==
    (/\ last.op = "get_object_index"
     /\ last.arg.obj.kind = KindWord("Start")
     /\ last.arg.obj.offset.dir = "Backward"
     /\ Count >= 1
     /\ IsSome(marks[last.arg.obj.offset.mark])
     /\ FromMark.absolute < len(text))
    => LET edges == Descending(WordEdges(text, 1, FromMark.absolute))
           target == IF Count <= Len(edges) THEN edges[Count] ELSE 0
       IN  /\ ResolvedTo(target)
           /\ last.ret = get_line_info(target, text)
           /\ last.ret.val.absolute <= FromMark.absolute

\* C22: dirty is false on construction, is true after every operation that
\* changes the stored bytes (insert_char at a set mark, remove_range, a
\* remove_object that removes), and once true is never set back to false,
\* also not by an undo or a redo that returns the content to its first bytes.
C22_DirtyMonotone ==
    /\ [](log = LogNew => ~dirty)
    /\ [][/\ dirty => dirty'
          /\ text' # text => dirty']_vars

\* an edit has been undone: the content is the first content again, and dirty is set
C22_Witness ==
    /\ dirty
    /\ text = C0
    /\ log.undo = <<>>
    /\ log.redo # <<>>
    /\ Head(log.redo).changes # <<>>

\* C23: with several View handles on one lock-guarded buffer, the byte
\* insertion and the cursor advance of View::insert_char are not separated
\* by a point where the lock is free: a handle that has stored its byte and
\* has not yet advanced the cursor holds the lock.
C23_InsertAndAdvanceUnderOneLock ==
    \A h \in ViewHandles : view.pc[h] = "move_mark" => view.lock = h

\* the number of offsets of t that hold the byte c
Occurrences(t, c) == Cardinality({i \in 1..Len(t) : t[i] = c})

\* C24: after View::insert_char(ch) with the cursor at offset p, the byte ch
\* is stored at offset p and the cursor's absolute is p + 1, for every char
\* ch, tab, newline and control chars included.
C24_ViewInsertAdvancesByOne ==
    view.op = "insert_char" =>
        /\ ~panicked
        /\ Len(text) = Len(view.before) + 1
        /\ At(text, view.p) = view.ch
        /\ marks["Cursor0"].val.absolute = view.p + 1

\* C25: handling one Insert(c) command with repeat count n inserts c exactly
\* n times when n >= 1, and exactly once when n = 0.
C25_InsertCommandRepeats ==
    view.op = "handle_command" =>
        LET n == IF view.number = 0 THEN 1 ELSE view.number
        IN  /\ ~panicked
            /\ Len(text) = Len(view.before) + n
            /\ Occurrences(text, view.ch) = Occurrences(view.before, view.ch) + n

====
